---- MODULE Spec2Model ----
(***************************************************************************)
(* The trading agent of backend/agent/agent.go: the lifecycle of a         *)
(* TradingAgent (Start, Stop), its scheduling loop (runTradingLoop) with   *)
(* the trade cycle it runs on every tick (trade, processSymbol), and the   *)
(* websocket session handler (handleConnections) that constructs, starts   *)
(* and stops agents on the operator's commands.                            *)
(*                                                                         *)
(* Start and Stop do all their work on the agent's fields between          *)
(* a.mu.Lock() and a.mu.Unlock(), so each is one atomic action; the `go`   *)
(* statement of Start creates the goroutine in its first position          *)
(* ("init"), where it has not executed anything yet.  Every blocking call  *)
(* of a loop (the select, GetAccount, FetchHistoricalData, PlaceOrder) is  *)
(* a step of its own, so that calls on the agent interleave with a tick.   *)
(* The ticker is not timed: Go gives no bound on how long a goroutine      *)
(* takes from one statement to the next, so a tick may be pending whenever *)
(* the loop evaluates its select.                                          *)
(***************************************************************************)
EXTENDS Integers, Sequences, FiniteSets, TLC

\* Bounds of the model.
MaxAgents == 2      \* TradingAgent instances one session constructs
MaxCalls == 4       \* Start()/Stop() calls made directly on one agent
MaxTicks == 2       \* firings of the 60-second tickers
NumSymbols == 2     \* len(Config.Symbols)
MaxMsgs == 4        \* messages one session reads

Agents == 1..MaxAgents
NoAgent == 0

\* The lines of the process-wide logger that the model counts: those of the
\* lifecycle, and the error lines of a trade cycle.
TradeLogLines == {"account_error", "fetch_error", "order_error"}
LogLines ==
    {"already_running", "not_running", "loop_started", "loop_stopped"}
       \cup TradeLogLines

----------------------------------------------------------------------------
\* Numbers.  The program computes in float64; the model computes in exact
\* rationals n/d, kept in lowest terms with d > 0, so that a value has one
\* representation.

RECURSIVE GCD(_, _)
GCD(x, y) == IF y = 0 THEN x ELSE GCD(y, x % y)

Abs(k) == IF k < 0 THEN -k ELSE k

Rat(n, d) ==
    LET g == GCD(Abs(n), Abs(d))
        sg == IF d < 0 THEN -1 ELSE 1
    IN  [n |-> sg * (n \div g), d |-> sg * (d \div g)]

RInt(k) == [n |-> k, d |-> 1]
RZero == RInt(0)
RAdd(x, y) == Rat(x.n * y.d + y.n * x.d, x.d * y.d)
RSub(x, y) == Rat(x.n * y.d - y.n * x.d, x.d * y.d)
RMul(x, y) == Rat(x.n * y.n, x.d * y.d)
RDiv(x, y) == Rat(x.n * y.d, x.d * y.n)
RAbs(x) == [n |-> Abs(x.n), d |-> x.d]
RLt(x, y) == x.n * y.d < y.n * x.d
RLe(x, y) == x.n * y.d <= y.n * x.d

----------------------------------------------------------------------------
\* package risk

\* NewManager
NewManager(accountBalance, riskPerTradePercentage, dailyRiskLimitPercentage) ==
    [AccountBalance |-> accountBalance,
     RiskPerTradePercentage |-> riskPerTradePercentage,
     DailyRiskLimitPercentage |-> dailyRiskLimitPercentage,
     DailyLossIncurred |-> RZero]

\* CalculatePositionSize with the absolute value of the price difference left out.
CalculatePositionSize_NoAbs(m, entryPrice, stopLossPrice) ==
    IF RLe(entryPrice, RZero) \/ RLe(stopLossPrice, RZero)
       THEN RZero
       ELSE LET riskAmount == RMul(m.AccountBalance, m.RiskPerTradePercentage)
                priceDifference == RSub(entryPrice, stopLossPrice)
            IN  IF priceDifference = RZero
                   THEN RZero
                   ELSE RDiv(riskAmount, priceDifference)

\* Manager.CalculatePositionSize
CalculatePositionSize(m, entryPrice, stopLossPrice) ==
    IF RLe(entryPrice, RZero) \/ RLe(stopLossPrice, RZero)
       THEN RZero
       ELSE LET riskAmount == RMul(m.AccountBalance, m.RiskPerTradePercentage)
                priceDifference == RAbs(RSub(entryPrice, stopLossPrice))
            IN  IF priceDifference = RZero
                   THEN RZero
                   ELSE RDiv(riskAmount, priceDifference)

\* DetermineTakeProfit with the long and the short branch exchanged.
DetermineTakeProfit_Swapped(entryPrice, stopLossPrice, riskRewardRatio) ==
    LET priceDifference == RAbs(RSub(entryPrice, stopLossPrice))
        takeProfitDistance == RMul(priceDifference, riskRewardRatio)
    IN  IF RLt(stopLossPrice, entryPrice)
           THEN RSub(entryPrice, takeProfitDistance)
           ELSE RAdd(entryPrice, takeProfitDistance)

\* Manager.DetermineTakeProfit
DetermineTakeProfit(entryPrice, stopLossPrice, riskRewardRatio) ==
    LET priceDifference == RAbs(RSub(entryPrice, stopLossPrice))
        takeProfitDistance == RMul(priceDifference, riskRewardRatio)
    IN  IF RLt(stopLossPrice, entryPrice)
           THEN RAdd(entryPrice, takeProfitDistance)
           ELSE RSub(entryPrice, takeProfitDistance)

\* UpdateAccountBalance without its check of the new balance.
UpdateAccountBalance_Unchecked(m, newBalance) ==
    [m EXCEPT !.AccountBalance = newBalance]

\* Manager.UpdateAccountBalance
UpdateAccountBalance(m, newBalance) ==
    IF RLt(RZero, newBalance)
       THEN [m EXCEPT !.AccountBalance = newBalance]
       ELSE m

----------------------------------------------------------------------------
\* package strategy

\* NewCombinedStrategy(20, 50, 14, 70, 30), the one strategy NewTradingAgent builds.
ShortWindow == 20
LongWindow == 50
RSIWindow == 14
RSIOverbought == 70
RSIOversold == 30

\* GenerateSignal checking the length against the short window.
GenerateSignal_ShortWindowCheck(len, ind) ==
    IF len < ShortWindow THEN "HOLD"
    ELSE IF /\ ind.previousShortSMA <= ind.previousLongSMA
            /\ ind.latestShortSMA > ind.latestLongSMA
            /\ ind.latestRSI < RSIOverbought
         THEN "BUY"
    ELSE IF /\ ind.previousShortSMA >= ind.previousLongSMA
            /\ ind.latestShortSMA < ind.latestLongSMA
            /\ ind.latestRSI > RSIOversold
         THEN "SELL"
    ELSE "HOLD"

\* GenerateSignal with the RSI filter of the sell condition left out.
GenerateSignal_NoSellFilter(len, ind) ==
    IF len < LongWindow THEN "HOLD"
    ELSE IF /\ ind.previousShortSMA <= ind.previousLongSMA
            /\ ind.latestShortSMA > ind.latestLongSMA
            /\ ind.latestRSI < RSIOverbought
         THEN "BUY"
    ELSE IF /\ ind.previousShortSMA >= ind.previousLongSMA
            /\ ind.latestShortSMA < ind.latestLongSMA
         THEN "SELL"
    ELSE "HOLD"

\* GenerateSignal of a strategy built with a long window of 30.
GenerateSignal_LongWindow30(len, ind) ==
    IF len < 30 THEN "HOLD"
    ELSE IF /\ ind.previousShortSMA <= ind.previousLongSMA
            /\ ind.latestShortSMA > ind.latestLongSMA
            /\ ind.latestRSI < RSIOverbought
         THEN "BUY"
    ELSE IF /\ ind.previousShortSMA >= ind.previousLongSMA
            /\ ind.latestShortSMA < ind.latestLongSMA
            /\ ind.latestRSI > RSIOversold
         THEN "SELL"
    ELSE "HOLD"

\* CombinedStrategy.GenerateSignal on closePrices of length len.  The indicator
\* series are computed by the talib library; ind holds the elements of them that
\* the function reads: shortSMA[len-2], longSMA[len-2], shortSMA[len-1],
\* longSMA[len-1] and rsi[len-1]; past the length check len >= 50, so these
\* indices exist.
GenerateSignal(len, ind) ==
    IF len < LongWindow THEN "HOLD"
    ELSE IF /\ ind.previousShortSMA <= ind.previousLongSMA
            /\ ind.latestShortSMA > ind.latestLongSMA
            /\ ind.latestRSI < RSIOverbought
         THEN "BUY"
    ELSE IF /\ ind.previousShortSMA >= ind.previousLongSMA
            /\ ind.latestShortSMA < ind.latestLongSMA
            /\ ind.latestRSI > RSIOversold
         THEN "SELL"
    ELSE "HOLD"

----------------------------------------------------------------------------
VARIABLES
    agents,      \* the TradingAgent instances constructed so far
    isRunning,   \* a.isRunning
    stopClosed,  \* whether a.stopChan has been closed
    mu,          \* a.mu: "unlocked" or "locked"
    loops,       \* per agent, the runTradingLoop goroutines launched, in order
    orders,      \* per agent, the orders the broker has accepted
    log,         \* how often each line of LogLines was logged
    panicked,    \* a call has panicked (close of a closed channel)
    proc,        \* the process: "up" or "down"
    envOK,       \* the API keys are set in the environment
    nStart,      \* per agent, the calls of Start() made
    nStop,       \* per agent, the calls of Stop() made
    ticks,       \* ticker firings so far
    sess,        \* handleConnections: its position and its tradingAgent variable
    msgs,        \* messages the session has read
    riskMgr,     \* per agent, a.RiskManager
    outbox,      \* the messages written to the session's websocket
    env,         \* what the collaborators and the operator may supply
    pure         \* a call of a function of package risk or strategy, and its result

vars == <<agents, isRunning, stopClosed, mu, loops, orders, log, panicked, proc,
          envOK, nStart, nStop, ticks, sess, msgs, riskMgr, outbox, env, pure>>

\* No order: the value of a loop's request outside Broker.PlaceOrder.
NoOrder == [symbol |-> 0, qty |-> RZero, side |-> "", type |-> "", tif |-> ""]

\* A goroutine that `go a.runTradingLoop()` has just created.  Beside its
\* position, the symbol it is at and its ticker's pending tick, it holds the
\* locals of processSymbol (signal, entryPrice, positionSize) and the order
\* passed to Broker.PlaceOrder.
NewLoop ==
    [pc |-> "init", sym |-> 0, fired |-> FALSE,
     signal |-> "", entryPrice |-> RZero, positionSize |-> RZero, req |-> NoOrder]

\* The positions of a loop inside trade().
InTrade == {"account", "fetch", "order"}

\* The positions at which the loop's ticker exists and has not been stopped.
TickerLive == {"select", "account", "fetch", "order"}

Logged(line) == [log EXCEPT ![line] = @ + 1]

\* The goroutines of agent a that have not returned.
LiveLoops(a) == {i \in DOMAIN loops[a] : loops[a][i].pc # "exited"}

\* The goroutines of agent a that are executing trade().
TradingLoops(a) == {i \in DOMAIN loops[a] : loops[a][i].pc \in InTrade}

TypeOK ==
    /\ agents \subseteq Agents
    /\ isRunning \in [Agents -> BOOLEAN]
    /\ stopClosed \in [Agents -> BOOLEAN]
    /\ mu \in [Agents -> {"unlocked", "locked"}]
    /\ \A a \in Agents : \A i \in DOMAIN loops[a] :
          /\ loops[a][i].pc \in {"init", "select", "exited"} \cup InTrade
          /\ loops[a][i].sym \in 0..NumSymbols
          /\ loops[a][i].fired \in BOOLEAN
          /\ loops[a][i].signal \in {"", "BUY", "SELL"}
          /\ loops[a][i].req.symbol \in 0..NumSymbols
    /\ orders \in [Agents -> Nat]
    /\ log \in [LogLines -> Nat]
    /\ panicked \in BOOLEAN
    /\ proc \in {"up", "down"}
    /\ envOK \in BOOLEAN
    /\ nStart \in [Agents -> Nat]
    /\ nStop \in [Agents -> Nat]
    /\ ticks \in 0..MaxTicks
    /\ sess.pc \in {"none", "upgrade", "read", "ended"}
    /\ sess.held \in agents \cup {NoAgent}
    /\ msgs \in 0..MaxMsgs
    /\ \A a \in Agents : riskMgr[a].AccountBalance.d > 0
    /\ outbox \in Seq({"log", "position_update"})
    /\ env \in {"lifecycle", "market", "daily"}
    /\ pure.fn \in {"none", "CalculatePositionSize", "DetermineTakeProfit",
                     "GenerateSignal"}
    /\ pure.done \in BOOLEAN
    /\ pure.signal \in {"", "BUY", "SELL", "HOLD"}

----------------------------------------------------------------------------
\* The environment: what the broker and the data service answer and what a
\* `start` payload carries.  In the "lifecycle" environment no call fails and
\* the answers are fixed; in the "market" environment they vary; in the "daily"
\* environment they vary too, but the data service answers the request of
\* processSymbol (the last 30 calendar days at resolution "D") with at most one
\* close per calendar day.

MayFail == env # "lifecycle"

\* The calendar days from now.AddDate(0, 0, -30) to now, both included.
MaxDailyCloses == 31

\* account.Equity of a GetAccount answer.
Equities ==
    IF env = "lifecycle" THEN {RInt(10000)} ELSE {RInt(-100), RZero, RInt(20000)}

\* Config.RiskPerTrade of a `start` payload, in percent; it is not validated.
RiskPerTrades == IF env = "lifecycle" THEN {1} ELSE {-1, 0, 1}

\* The five indicator values GenerateSignal reads.
Indicators(ps, pl, ls, ll, rsi) ==
    [previousShortSMA |-> ps, previousLongSMA |-> pl,
     latestShortSMA |-> ls, latestLongSMA |-> ll, latestRSI |-> rsi]

\* A bullish and a bearish crossover, each with an RSI that passes the filter
\* and one that does not.
CrossoverIndicators ==
    {Indicators(100, 100, 101, 100, 50), Indicators(100, 100, 101, 100, 70),
     Indicators(100, 100, 99, 100, 50), Indicators(100, 100, 99, 100, 30)}

\* The candles of a FetchHistoricalData answer: the number of closes, the last
\* close and the indicator values talib computes from the closes.
Candles ==
    IF env = "market"
       THEN [len : {0, 31, 50}, last : {RInt(100)}, ind : CrossoverIndicators]
               \cup [len : {50}, last : {RZero}, ind : CrossoverIndicators]
    ELSE IF env = "daily"
       THEN [len : {0, 1, MaxDailyCloses}, last : {RZero, RInt(100)},
             ind : CrossoverIndicators]
       ELSE {[len |-> 31, last |-> RInt(100), ind |-> Indicators(100, 100, 101, 100, 50)],
             [len |-> 50, last |-> RInt(100), ind |-> Indicators(100, 100, 101, 100, 50)]}

\* The RiskManager NewTradingAgent builds: risk.NewManager(10000.0,
\* config.RiskPerTrade/100, 0.05).
AgentManager(riskPerTrade) ==
    NewManager(RInt(10000), Rat(riskPerTrade, 100), Rat(5, 100))

\* The RiskManager slot of an agent that is not constructed yet.
NoManager == AgentManager(0)

\* No call of a function of package risk or strategy is being made.
NoCall ==
    [fn |-> "none", n |-> 0, m |-> NoManager, entryPrice |-> RZero,
     stopLossPrice |-> RZero, riskRewardRatio |-> RZero, len |-> 0,
     ind |-> Indicators(0, 0, 0, 0, 0), done |-> FALSE, ret |-> RZero,
     signal |-> ""]

----------------------------------------------------------------------------
\* NewTradingAgent: the fields of a fresh agent (isRunning false, stopChan open).
InitAgents ==
    /\ isRunning = [a \in Agents |-> FALSE]
    /\ stopClosed = [a \in Agents |-> FALSE]
    /\ mu = [a \in Agents |-> "unlocked"]
    /\ loops = [a \in Agents |-> <<>>]
    /\ orders = [a \in Agents |-> 0]
    /\ log = [l \in LogLines |-> 0]
    /\ panicked = FALSE
    /\ proc = "up"
    /\ nStart = [a \in Agents |-> 0]
    /\ nStop = [a \in Agents |-> 0]
    /\ ticks = 0

\* One constructed agent, driven by direct calls of its methods.
Init ==
    /\ InitAgents
    /\ agents = {1}
    /\ envOK = TRUE
    /\ sess = [pc |-> "none", held |-> NoAgent]
    /\ msgs = 0
    /\ env = "lifecycle"
    /\ \E r \in RiskPerTrades :
          riskMgr = [a \in Agents |-> IF a = 1 THEN AgentManager(r) ELSE NoManager]
    /\ outbox = <<>>
    /\ pure = NoCall

----------------------------------------------------------------------------
\* Start without its isRunning check: every call launches a loop.
Start_Unguarded(a) ==
    /\ proc = "up"
    /\ mu[a] = "unlocked"
    /\ nStart' = [nStart EXCEPT ![a] = @ + 1]
    /\ isRunning' = [isRunning EXCEPT ![a] = TRUE]
    /\ loops' = [loops EXCEPT ![a] = Append(@, NewLoop)]
    /\ UNCHANGED <<log, stopClosed, mu, orders, panicked, proc, nStop, ticks>>

\* TradingAgent.Start
Start(a) ==
    /\ proc = "up"
    /\ mu[a] = "unlocked"
    /\ nStart' = [nStart EXCEPT ![a] = @ + 1]
    /\ IF isRunning[a]
          THEN /\ log' = Logged("already_running")
               /\ UNCHANGED <<isRunning, loops>>
          ELSE /\ isRunning' = [isRunning EXCEPT ![a] = TRUE]
               /\ loops' = [loops EXCEPT ![a] = Append(@, NewLoop)]
               /\ UNCHANGED log
    /\ UNCHANGED <<stopClosed, mu, orders, panicked, proc, nStop, ticks>>

\* TradingAgent.Stop.  close(a.stopChan) of a closed channel panics with a.mu
\* locked (no deferred Unlock); the panic ends the process unless a caller
\* recovers it.
Stop(a) ==
    /\ proc = "up"
    /\ mu[a] = "unlocked"
    /\ nStop' = [nStop EXCEPT ![a] = @ + 1]
    /\ IF ~isRunning[a]
          THEN /\ log' = Logged("not_running")
               /\ UNCHANGED <<isRunning, stopClosed, mu, panicked, proc>>
          ELSE IF stopClosed[a]
          THEN /\ panicked' = TRUE
               /\ mu' = [mu EXCEPT ![a] = "locked"]
               /\ proc' \in {"up", "down"}
               /\ UNCHANGED <<isRunning, stopClosed, log>>
          ELSE /\ stopClosed' = [stopClosed EXCEPT ![a] = TRUE]
               /\ isRunning' = [isRunning EXCEPT ![a] = FALSE]
               /\ UNCHANGED <<mu, panicked, proc, log>>
    /\ UNCHANGED <<loops, orders, nStart, ticks>>

----------------------------------------------------------------------------
\* The scheduling loop of agent a launched i-th.

SetLoop(a, i, l) == loops' = [loops EXCEPT ![a][i] = l]

\* What no step of a loop touches: the lifecycle fields and the session.
LoopFrame ==
    UNCHANGED <<agents, envOK, sess, msgs, isRunning, stopClosed, mu, panicked,
                proc, nStart, nStop, outbox, env, pure>>

\* runTradingLoop up to its first select: the log line and time.NewTicker.
LoopInit(a, i) ==
    /\ proc = "up"
    /\ loops[a][i].pc = "init"
    /\ SetLoop(a, i, [loops[a][i] EXCEPT !.pc = "select"])
    /\ log' = Logged("loop_started")
    /\ LoopFrame
    /\ UNCHANGED <<orders, ticks, riskMgr>>

\* The ticker sends on ticker.C, which holds at most one tick.
TimerFire(a, i) ==
    /\ proc = "up"
    /\ ticks < MaxTicks
    /\ loops[a][i].pc \in TickerLive
    /\ ~loops[a][i].fired
    /\ SetLoop(a, i, [loops[a][i] EXCEPT !.fired = TRUE])
    /\ ticks' = ticks + 1
    /\ LoopFrame
    /\ UNCHANGED <<orders, log, riskMgr>>

\* select, case <-a.stopChan: ready once the channel is closed.  The deferred
\* ticker.Stop() runs on return.
SelectStop(a, i) ==
    /\ proc = "up"
    /\ loops[a][i].pc = "select"
    /\ stopClosed[a]
    /\ SetLoop(a, i, [loops[a][i] EXCEPT !.pc = "exited", !.fired = FALSE])
    /\ log' = Logged("loop_stopped")
    /\ LoopFrame
    /\ UNCHANGED <<orders, ticks, riskMgr>>

\* select, case <-ticker.C: ready when a tick is pending.  When both cases are
\* ready Go chooses one of them at random.
SelectTick(a, i) ==
    /\ proc = "up"
    /\ loops[a][i].pc = "select"
    /\ loops[a][i].fired
    /\ SetLoop(a, i, [loops[a][i] EXCEPT !.pc = "account", !.fired = FALSE])
    /\ LoopFrame
    /\ UNCHANGED <<orders, log, ticks, riskMgr>>

\* The position after the symbol at l.sym: the next symbol, or back to the
\* select.  processSymbol has returned, so its locals are gone.
NextSymbol(l) ==
    LET r == [l EXCEPT !.signal = "", !.entryPrice = RZero,
                       !.positionSize = RZero, !.req = NoOrder]
    IN  IF l.sym < NumSymbols
           THEN [r EXCEPT !.pc = "fetch", !.sym = l.sym + 1]
           ELSE [r EXCEPT !.pc = "select", !.sym = 0]

\* What a.Broker.GetAccount may return.
AccountAnswers ==
    [err : {FALSE}, equity : Equities]
       \cup (IF MayFail THEN {[err |-> TRUE, equity |-> RZero]} ELSE {})

\* What a.DataFetcher.FetchHistoricalData may return.
FetchAnswers ==
    [err : {FALSE}, candles : Candles]
       \cup (IF MayFail
                THEN {[err |-> TRUE,
                       candles |-> [len |-> 0, last |-> RZero,
                                    ind |-> Indicators(0, 0, 0, 0, 0)]]}
                ELSE {})

\* Whether a.Broker.PlaceOrder may succeed.
OrderAnswers == IF MayFail THEN {TRUE, FALSE} ELSE {TRUE}

\* trade going on to the symbols after a failed GetAccount.
GetAccount_FailureProceeds(a, i) ==
    /\ proc = "up"
    /\ loops[a][i].pc = "account"
    /\ \E r \in AccountAnswers :
          IF r.err
             THEN /\ log' = Logged("account_error")
                  /\ SetLoop(a, i, NextSymbol(loops[a][i]))
                  /\ UNCHANGED riskMgr
             ELSE /\ riskMgr' = [riskMgr EXCEPT
                                   ![a] = UpdateAccountBalance(@, r.equity)]
                  /\ SetLoop(a, i, NextSymbol(loops[a][i]))
                  /\ UNCHANGED log
    /\ LoopFrame
    /\ UNCHANGED <<orders, ticks>>

\* trade up to the walk of the symbols: GetAccount fails (the error is logged
\* and trade returns), or the balance is updated and the walk begins.
GetAccount(a, i) ==
    /\ proc = "up"
    /\ loops[a][i].pc = "account"
    /\ \E r \in AccountAnswers :
          IF r.err
             THEN /\ log' = Logged("account_error")
                  /\ SetLoop(a, i, [loops[a][i] EXCEPT !.pc = "select"])
                  /\ UNCHANGED riskMgr
             ELSE /\ riskMgr' = [riskMgr EXCEPT
                                   ![a] = UpdateAccountBalance(@, r.equity)]
                  /\ SetLoop(a, i, NextSymbol(loops[a][i]))
                  /\ UNCHANGED log
    /\ LoopFrame
    /\ UNCHANGED <<orders, ticks>>

\* The order processSymbol passes to a.Broker.PlaceOrder.
OrderFor(symbol, positionSize, signal) ==
    [symbol |-> symbol, qty |-> positionSize,
     side |-> IF signal = "SELL" THEN "sell" ELSE "buy",
     type |-> "market", tif |-> "gtc"]

\* processSymbol ending the walk of the symbols when the fetch fails.
ProcessSymbol_AbortOnError(a, i) ==
    /\ proc = "up"
    /\ loops[a][i].pc = "fetch"
    /\ \E r \in FetchAnswers :
          LET l == loops[a][i]
              signal == GenerateSignal(r.candles.len, r.candles.ind)
              entryPrice == r.candles.last
              stopLossPrice ==
                  IF signal = "SELL" THEN RMul(entryPrice, Rat(102, 100))
                                     ELSE RMul(entryPrice, Rat(98, 100))
              positionSize ==
                  CalculatePositionSize(riskMgr[a], entryPrice, stopLossPrice)
          IN  IF r.err
                 THEN /\ log' = Logged("fetch_error")
                      /\ SetLoop(a, i, [NextSymbol(l) EXCEPT
                                           !.pc = "select", !.sym = 0])
                 ELSE IF signal = "HOLD"
                 THEN /\ SetLoop(a, i, NextSymbol(l))
                      /\ UNCHANGED log
                 ELSE IF RLt(RZero, positionSize)
                 THEN /\ SetLoop(a, i, [l EXCEPT
                             !.pc = "order", !.signal = signal,
                             !.entryPrice = entryPrice,
                             !.positionSize = positionSize,
                             !.req = OrderFor(l.sym, positionSize, signal)])
                      /\ UNCHANGED log
                 ELSE /\ SetLoop(a, i, NextSymbol(l))
                      /\ UNCHANGED log
    /\ LoopFrame
    /\ UNCHANGED <<orders, ticks, riskMgr>>

\* processSymbol without its check of the position size.
ProcessSymbol_NoSizeCheck(a, i) ==
    /\ proc = "up"
    /\ loops[a][i].pc = "fetch"
    /\ \E r \in FetchAnswers :
          LET l == loops[a][i]
              signal == GenerateSignal(r.candles.len, r.candles.ind)
              entryPrice == r.candles.last
              stopLossPrice ==
                  IF signal = "SELL" THEN RMul(entryPrice, Rat(102, 100))
                                     ELSE RMul(entryPrice, Rat(98, 100))
              positionSize ==
                  CalculatePositionSize(riskMgr[a], entryPrice, stopLossPrice)
          IN  IF r.err
                 THEN /\ log' = Logged("fetch_error")
                      /\ SetLoop(a, i, NextSymbol(l))
                 ELSE IF signal = "HOLD"
                 THEN /\ SetLoop(a, i, NextSymbol(l))
                      /\ UNCHANGED log
                 ELSE /\ SetLoop(a, i, [l EXCEPT
                             !.pc = "order", !.signal = signal,
                             !.entryPrice = entryPrice,
                             !.positionSize = positionSize,
                             !.req = OrderFor(l.sym, positionSize, signal)])
                      /\ UNCHANGED log
    /\ LoopFrame
    /\ UNCHANGED <<orders, ticks, riskMgr>>

\* processSymbol up to PlaceOrder: the fetch fails (logged), the signal is Hold,
\* the position size is not positive, or the order is passed to the broker.
ProcessSymbol(a, i) ==
    /\ proc = "up"
    /\ loops[a][i].pc = "fetch"
    /\ \E r \in FetchAnswers :
          LET l == loops[a][i]
              signal == GenerateSignal(r.candles.len, r.candles.ind)
              entryPrice == r.candles.last
              stopLossPrice ==
                  IF signal = "SELL" THEN RMul(entryPrice, Rat(102, 100))
                                     ELSE RMul(entryPrice, Rat(98, 100))
              positionSize ==
                  CalculatePositionSize(riskMgr[a], entryPrice, stopLossPrice)
          IN  IF r.err
                 THEN /\ log' = Logged("fetch_error")
                      /\ SetLoop(a, i, NextSymbol(l))
                 ELSE IF signal = "HOLD"
                 THEN /\ SetLoop(a, i, NextSymbol(l))
                      /\ UNCHANGED log
                 ELSE IF RLt(RZero, positionSize)
                 THEN /\ SetLoop(a, i, [l EXCEPT
                             !.pc = "order", !.signal = signal,
                             !.entryPrice = entryPrice,
                             !.positionSize = positionSize,
                             !.req = OrderFor(l.sym, positionSize, signal)])
                      /\ UNCHANGED log
                 ELSE /\ SetLoop(a, i, NextSymbol(l))
                      /\ UNCHANGED log
    /\ LoopFrame
    /\ UNCHANGED <<orders, ticks, riskMgr>>

\* Broker.PlaceOrder returns: the order was accepted, or it failed and the error
\* is logged; processSymbol returns.
PlaceOrder(a, i) ==
    /\ proc = "up"
    /\ loops[a][i].pc = "order"
    /\ SetLoop(a, i, NextSymbol(loops[a][i]))
    /\ \E ok \in OrderAnswers :
          IF ok THEN /\ orders' = [orders EXCEPT ![a] = @ + 1]
                     /\ UNCHANGED log
                ELSE /\ log' = Logged("order_error")
                     /\ UNCHANGED orders
    /\ LoopFrame
    /\ UNCHANGED <<ticks, riskMgr>>

\* The steps of a loop that are not the select: each is a call that returns.
LoopProgress(a, i) ==
    \/ LoopInit(a, i)
    \/ GetAccount(a, i)
    \/ ProcessSymbol(a, i)
    \/ PlaceOrder(a, i)

----------------------------------------------------------------------------
\* Direct calls of the agent's methods.

CallStart ==
    \E a \in agents :
        /\ nStart[a] + nStop[a] < MaxCalls
        /\ Start(a)
        /\ UNCHANGED <<agents, envOK, sess, msgs, riskMgr, outbox, env, pure>>

CallStop ==
    \E a \in agents :
        /\ nStart[a] + nStop[a] < MaxCalls
        /\ Stop(a)
        /\ UNCHANGED <<agents, envOK, sess, msgs, riskMgr, outbox, env, pure>>

----------------------------------------------------------------------------
\* handleConnections: one websocket session.

\* What a step of the session that calls no method of an agent leaves alone.
AgentFrame ==
    UNCHANGED <<isRunning, stopClosed, mu, loops, orders, log, panicked, proc,
                nStart, nStop, ticks>>

\* A session whose connection has not been upgraded; no agent exists yet.
SessionInit ==
    /\ InitAgents
    /\ agents = {}
    /\ envOK \in BOOLEAN
    /\ sess = [pc |-> "upgrade", held |-> NoAgent]
    /\ msgs = 0
    /\ env = "lifecycle"
    /\ riskMgr = [a \in Agents |-> NoManager]
    /\ outbox = <<>>
    /\ pure = NoCall

\* upgrader.Upgrade: on an error the handler returns at once.
Upgrade ==
    /\ proc = "up"
    /\ sess.pc = "upgrade"
    /\ \E ok \in BOOLEAN :
          sess' = [sess EXCEPT !.pc = IF ok THEN "read" ELSE "ended"]
    /\ AgentFrame
    /\ UNCHANGED <<agents, envOK, msgs, riskMgr, outbox, env, pure>>

\* ws.ReadMessage returns a message.
ReadMessage ==
    /\ proc = "up"
    /\ sess.pc = "read"
    /\ msgs < MaxMsgs
    /\ msgs' = msgs + 1

\* case "start" with the previous agent stopped before it is replaced.
RecvStart_StopPrevious ==
    /\ ReadMessage
    /\ envOK
    /\ Cardinality(agents) < MaxAgents
    /\ LET a == Cardinality(agents) + 1
           old == sess.held
       IN  /\ agents' = agents \cup {a}
           /\ sess' = [sess EXCEPT !.held = a]
           /\ nStart' = [nStart EXCEPT ![a] = @ + 1]
           /\ isRunning' = [b \in Agents |-> IF b = a THEN TRUE
                                             ELSE IF b = old THEN FALSE
                                             ELSE isRunning[b]]
           /\ stopClosed' = [b \in Agents |-> IF b = old THEN TRUE ELSE stopClosed[b]]
           /\ loops' = [loops EXCEPT ![a] = Append(@, NewLoop)]
           /\ \E r \in RiskPerTrades :
                 riskMgr' = [riskMgr EXCEPT ![a] = AgentManager(r)]
    /\ UNCHANGED <<envOK, mu, orders, log, panicked, proc, nStop, ticks,
                   outbox, env, pure>>

\* case "start" calling Start on the agent held, when there is one, instead of
\* building a new agent.
RecvStart_ReuseAgent ==
    /\ ReadMessage
    /\ envOK
    /\ IF sess.held = NoAgent
          THEN /\ Cardinality(agents) < MaxAgents
               /\ LET a == Cardinality(agents) + 1
                  IN  /\ agents' = agents \cup {a}
                      /\ sess' = [sess EXCEPT !.held = a]
                      /\ Start(a)
                      /\ \E r \in RiskPerTrades :
                            riskMgr' = [riskMgr EXCEPT ![a] = AgentManager(r)]
          ELSE /\ Start(sess.held)
               /\ UNCHANGED <<agents, sess, riskMgr>>
    /\ UNCHANGED <<envOK, outbox, env, pure>>

\* case "start" with a payload that decodes: NewTradingAgent, then Start on the
\* new agent, which replaces the one held.
RecvStart ==
    /\ ReadMessage
    /\ envOK
    /\ Cardinality(agents) < MaxAgents
    /\ LET a == Cardinality(agents) + 1
       IN  /\ agents' = agents \cup {a}
           /\ sess' = [sess EXCEPT !.held = a]
           /\ Start(a)
           /\ \E r \in RiskPerTrades :
                 riskMgr' = [riskMgr EXCEPT ![a] = AgentManager(r)]
    /\ UNCHANGED <<envOK, outbox, env, pure>>

\* case "start" when an API key is missing: NewAlpacaBroker or NewFinnhubFetcher,
\* called by NewTradingAgent, ends the process with log.Fatal.
RecvStartFatal ==
    /\ ReadMessage
    /\ ~envOK
    /\ proc' = "down"
    /\ UNCHANGED <<agents, envOK, sess, isRunning, stopClosed, mu, loops, orders,
                   log, panicked, nStart, nStop, ticks, riskMgr, outbox, env, pure>>

\* A message that is not JSON: json.Unmarshal fails and the loop continues.
RecvMalformed ==
    /\ ReadMessage
    /\ AgentFrame
    /\ UNCHANGED <<agents, envOK, sess, riskMgr, outbox, env, pure>>

\* case "start" with a payload that does not decode: the loop continues.
RecvBadConfig ==
    /\ ReadMessage
    /\ AgentFrame
    /\ UNCHANGED <<agents, envOK, sess, riskMgr, outbox, env, pure>>

\* A message of a type the switch has no case for.
RecvUnknown ==
    /\ ReadMessage
    /\ AgentFrame
    /\ UNCHANGED <<agents, envOK, sess, riskMgr, outbox, env, pure>>

\* case "stop": Stop on the agent held, if any.
RecvStop ==
    /\ ReadMessage
    /\ IF sess.held = NoAgent THEN AgentFrame ELSE Stop(sess.held)
    /\ UNCHANGED <<agents, envOK, sess, riskMgr, outbox, env, pure>>

\* The read error handled without stopping the agent held.
ReadError_NoStop ==
    /\ proc = "up"
    /\ sess.pc = "read"
    /\ AgentFrame
    /\ sess' = [sess EXCEPT !.pc = "ended"]
    /\ UNCHANGED <<agents, envOK, msgs, riskMgr, outbox, env, pure>>

\* ws.ReadMessage fails (the client is gone): Stop on the agent held, if any,
\* then break.
ReadError ==
    /\ proc = "up"
    /\ sess.pc = "read"
    /\ IF sess.held = NoAgent THEN AgentFrame ELSE Stop(sess.held)
    /\ sess' = [sess EXCEPT !.pc = "ended"]
    /\ UNCHANGED <<agents, envOK, msgs, riskMgr, outbox, env, pure>>

----------------------------------------------------------------------------
\* One agent under direct calls of Start and Stop.
Next ==
    \/ CallStart
    \/ CallStop
    \/ \E a \in agents : \E i \in DOMAIN loops[a] : LoopInit(a, i)
    \/ \E a \in agents : \E i \in DOMAIN loops[a] : TimerFire(a, i)
    \/ \E a \in agents : \E i \in DOMAIN loops[a] : SelectStop(a, i)
    \/ \E a \in agents : \E i \in DOMAIN loops[a] : SelectTick(a, i)
    \/ \E a \in agents : \E i \in DOMAIN loops[a] : GetAccount(a, i)
    \/ \E a \in agents : \E i \in DOMAIN loops[a] : ProcessSymbol(a, i)
    \/ \E a \in agents : \E i \in DOMAIN loops[a] : PlaceOrder(a, i)

Spec == Init /\ [][Next]_vars

\* The goroutine scheduler runs every runnable goroutine, and every collaborator
\* call returns: weak fairness of the steps of a loop outside its select.  A
\* select with several ready cases chooses among them uniformly at random, so a
\* case that is ready again and again is eventually chosen: strong fairness of
\* the stop case.
FairLoop(a, i) ==
    /\ i \in DOMAIN loops[a]
    /\ LoopProgress(a, i)

FairSelectStop(a, i) ==
    /\ i \in DOMAIN loops[a]
    /\ SelectStop(a, i)

FairSpec ==
    /\ Spec
    /\ \A a \in Agents : \A i \in 1..MaxCalls :
          WF_vars(FairLoop(a, i)) /\ SF_vars(FairSelectStop(a, i))

\* Agents driven only by the session handler.
SessionNext ==
    \/ Upgrade
    \/ RecvStart
    \/ RecvStartFatal
    \/ RecvMalformed
    \/ RecvBadConfig
    \/ RecvUnknown
    \/ RecvStop
    \/ ReadError
    \/ \E a \in agents : \E i \in DOMAIN loops[a] : LoopInit(a, i)
    \/ \E a \in agents : \E i \in DOMAIN loops[a] : TimerFire(a, i)
    \/ \E a \in agents : \E i \in DOMAIN loops[a] : SelectStop(a, i)
    \/ \E a \in agents : \E i \in DOMAIN loops[a] : SelectTick(a, i)
    \/ \E a \in agents : \E i \in DOMAIN loops[a] : GetAccount(a, i)
    \/ \E a \in agents : \E i \in DOMAIN loops[a] : ProcessSymbol(a, i)
    \/ \E a \in agents : \E i \in DOMAIN loops[a] : PlaceOrder(a, i)

SessionSpec == SessionInit /\ [][SessionNext]_vars

----------------------------------------------------------------------------
\* One agent in the "market" or the "daily" environment: collaborator calls may
\* fail, and the equity, the candles and the RiskPerTrade of the configuration
\* vary.

TickInit ==
    /\ InitAgents
    /\ agents = {1}
    /\ envOK = TRUE
    /\ sess = [pc |-> "none", held |-> NoAgent]
    /\ msgs = 0
    /\ env \in {"market", "daily"}
    /\ \E r \in RiskPerTrades :
          riskMgr = [a \in Agents |-> IF a = 1 THEN AgentManager(r) ELSE NoManager]
    /\ outbox = <<>>
    /\ pure = NoCall

TickSpec == TickInit /\ [][Next]_vars

\* TickSpec with the scheduling of FairSpec.
FairTickSpec ==
    /\ TickSpec
    /\ \A a \in Agents : \A i \in 1..MaxCalls :
          WF_vars(FairLoop(a, i)) /\ SF_vars(FairSelectStop(a, i))

----------------------------------------------------------------------------
\* The functions of package risk and package strategy on their own: a caller
\* makes up to MaxPureCalls calls in a row, each with arguments of its choice.

MaxPureCalls == 2

\* Managers as NewTradingAgent builds them from a `start` payload, after a
\* balance refresh.
PureManagers ==
    {UpdateAccountBalance(AgentManager(r), b) :
        r \in {-1, 0, 1, 150}, b \in {RInt(10000), RInt(20000)}}

PurePrices == {RInt(-1), RZero, RInt(98), RInt(100), RInt(102)}

PureRatios == {RInt(-1), RZero, RInt(1), RInt(3)}

\* Lengths of closePrices around the long window.
PureLens == {0, 31, 49, 50, 51}

\* Indicator values around a crossover and around the two RSI thresholds.
PureIndicators ==
    {Indicators(ps, pl, ls, ll, rsi) :
        ps \in {100, 101}, pl \in {100, 101}, ls \in {100, 101},
        ll \in {100, 101}, rsi \in {29, 30, 31, 69, 70, 71}}

\* The calls a caller may make.
PureCalls ==
    {[NoCall EXCEPT !.fn = "CalculatePositionSize", !.m = m,
                    !.entryPrice = e, !.stopLossPrice = sl] :
        m \in PureManagers, e \in PurePrices, sl \in PurePrices}
    \cup
    {[NoCall EXCEPT !.fn = "DetermineTakeProfit", !.entryPrice = e,
                    !.stopLossPrice = sl, !.riskRewardRatio = rr] :
        e \in PurePrices, sl \in PurePrices, rr \in PureRatios}
    \cup
    {[NoCall EXCEPT !.fn = "GenerateSignal", !.len = k, !.ind = ind] :
        k \in PureLens, ind \in PureIndicators}

PureFrame ==
    UNCHANGED <<agents, isRunning, stopClosed, mu, loops, orders, log, panicked,
                proc, envOK, nStart, nStop, ticks, sess, msgs, riskMgr, outbox,
                env>>

PureInit ==
    /\ InitAgents
    /\ agents = {}
    /\ envOK = TRUE
    /\ sess = [pc |-> "none", held |-> NoAgent]
    /\ msgs = 0
    /\ env = "lifecycle"
    /\ riskMgr = [a \in Agents |-> NoManager]
    /\ outbox = <<>>
    /\ \E c \in PureCalls : pure = [c EXCEPT !.n = 1]

\* m.CalculatePositionSize(entryPrice, stopLossPrice) returns.
CallCalculatePositionSize ==
    /\ pure.fn = "CalculatePositionSize"
    /\ ~pure.done
    /\ pure' = [pure EXCEPT
                  !.done = TRUE,
                  !.ret = CalculatePositionSize(pure.m, pure.entryPrice,
                                                pure.stopLossPrice)]
    /\ PureFrame

\* m.DetermineTakeProfit(entryPrice, stopLossPrice, riskRewardRatio) returns.
CallDetermineTakeProfit ==
    /\ pure.fn = "DetermineTakeProfit"
    /\ ~pure.done
    /\ pure' = [pure EXCEPT
                  !.done = TRUE,
                  !.ret = DetermineTakeProfit(pure.entryPrice, pure.stopLossPrice,
                                              pure.riskRewardRatio)]
    /\ PureFrame

\* s.GenerateSignal(closePrices) returns.
CallGenerateSignal ==
    /\ pure.fn = "GenerateSignal"
    /\ ~pure.done
    /\ pure' = [pure EXCEPT !.done = TRUE,
                            !.signal = GenerateSignal(pure.len, pure.ind)]
    /\ PureFrame

\* The caller makes its next call.
NextCall ==
    /\ pure.done
    /\ pure.n < MaxPureCalls
    /\ \E c \in PureCalls : pure' = [c EXCEPT !.n = pure.n + 1]
    /\ PureFrame

PureNext ==
    \/ CallCalculatePositionSize
    \/ CallDetermineTakeProfit
    \/ CallGenerateSignal
    \/ NextCall

PureSpec == PureInit /\ [][PureNext]_vars

----------------------------------------------------------------------------
\* The claims.

\* C1: in every reachable state, whatever Start() and Stop() calls were made on
\* an agent, at most one of its runTradingLoop goroutines is alive.
C1_AtMostOneLoop ==
    \A a \in agents : Cardinality(LiveLoops(a)) <= 1

\* A call that changed nothing of agent a but logged the one line.
NoOpLogging(a, line) ==
    /\ isRunning'[a] = isRunning[a]
    /\ stopClosed'[a] = stopClosed[a]
    /\ LiveLoops(a)' = LiveLoops(a)
    /\ Len(loops'[a]) = Len(loops[a])
    /\ log' = Logged(line)

\* C2: Start() on a Running agent and Stop() on an Idle agent (never started
\* or stopped) leave the running flag, the cancellation signal and the live
\* loops as they are, and log exactly one line ("already running", "not running").
C2_MisuseIsNoOp ==
    [][\A a \in Agents :
          /\ (nStart'[a] = nStart[a] + 1 /\ isRunning[a])
                => NoOpLogging(a, "already_running")
          /\ (nStop'[a] = nStop[a] + 1 /\ ~isRunning[a])
                => NoOpLogging(a, "not_running")]_vars

\* Both misuses have happened: a Stop() on the agent while Idle and a Start()
\* on it while Running, and its one loop is alive.
C2_Witness ==
    \E a \in agents :
        /\ log["already_running"] >= 1
        /\ log["not_running"] >= 1
        /\ Cardinality(LiveLoops(a)) = 1
        /\ isRunning[a]

\* C3: no sequence of Start() and Stop() calls on an agent panics.
C3_NoPanic == ~panicked

\* C4: once the cancellation is signalled, no loop of the agent goes from its
\* select into a new tick.
C4_NoTickAfterCancel ==
    [][\A a \in Agents : \A i \in DOMAIN loops[a] :
          (stopClosed[a] /\ loops[a][i].pc = "select")
             => loops'[a][i].pc # "account"]_vars

\* C5: a loop launched by a Start() that follows a Start() and a Stop() never
\* executes trade().  Start launches a loop only when isRunning is false, and
\* only Stop resets isRunning, so these are the loops launched second or later.
C5_NoTradeAfterRestart ==
    \A a \in agents : \A i \in DOMAIN loops[a] :
        i >= 2 => loops[a][i].pc \notin InTrade

\* C6: a loop that is alive when the agent's cancellation is signalled
\* eventually returns.
C6_CancelLeadsToExit ==
    \A a \in Agents : \A i \in 1..MaxCalls :
        (i \in DOMAIN loops[a] /\ stopClosed[a] /\ loops[a][i].pc # "exited")
           ~> (i \in DOMAIN loops[a] /\ loops[a][i].pc = "exited")

\* C7: Stop() on a Running agent sets isRunning to false, signals the
\* cancellation, releases the lock and does not wait for or change any loop.
C7_StopCancelsRunning ==
    [][\A a \in Agents :
          (nStop'[a] = nStop[a] + 1 /\ isRunning[a])
             => /\ ~isRunning'[a]
                /\ stopClosed'[a]
                /\ mu'[a] = "unlocked"
                /\ loops' = loops]_vars

\* C8: at no time are two executions of trade() of one agent in progress.
C8_OneTradeAtATime ==
    \A a \in agents : Cardinality(TradingLoops(a)) <= 1

\* C9: an agent the session no longer holds after a step, and that was Running
\* before it, is still Running after it with its cancellation not signalled and
\* its loop alive: neither the replacing `start` nor a later `stop` or
\* disconnect stops it.
C9_ReplacedAgentLeaks ==
    [][\A a \in agents :
          (a # sess'.held /\ isRunning[a])
             => /\ isRunning'[a]
                /\ ~stopClosed'[a]
                /\ LiveLoops(a) # {}
                /\ LiveLoops(a)' = LiveLoops(a)]_vars

\* The session has ended and the loop of an agent it replaced is in a tick.
C9_Witness ==
    /\ sess.pc = "ended"
    /\ \E a \in agents :
          /\ a # sess.held
          /\ isRunning[a]
          /\ ~stopClosed[a]
          /\ TradingLoops(a) # {}

\* C10: once the session has ended, Stop() has been called on the agent it
\* holds, which is Idle with its cancellation signalled.
C10_DisconnectStops ==
    (sess.pc = "ended" /\ sess.held # NoAgent)
       => /\ nStop[sess.held] >= 1
          /\ ~isRunning[sess.held]
          /\ stopClosed[sess.held]

\* The session ended holding an agent that no `stop` command had stopped: the
\* only Stop() on it is the one of the disconnect.
C10_Witness ==
    /\ sess.pc = "ended"
    /\ sess.held # NoAgent
    /\ nStop[sess.held] = 1
    /\ log["not_running"] = 0
    /\ stopClosed[sess.held]

\* The log lines and position changes the trade cycles have produced so far.
TradeEvents ==
    log["account_error"] + log["fetch_error"] + log["order_error"] + orders[1]

\* C11: once a trade cycle of the agent has logged a line or changed a
\* position, a `log` or `position_update` message is eventually written to the
\* agent's connection.
C11_EventsForwarded ==
    (TradeEvents > 0) ~> (Len(outbox) > 0)

\* Loop i of agent a takes the step.
LoopSteps(a, i) ==
    /\ i \in DOMAIN loops[a]
    /\ loops'[a][i] # loops[a][i]

\* C12: when the fetch or the order placement of a symbol fails, the walk goes
\* on in the same tick with the next configured symbol (or ends, after the last
\* one); the failed symbol is not taken again.
C12_FailureIsolated ==
    [][\A a \in agents : \A i \in 1..MaxCalls :
          ( /\ LoopSteps(a, i)
            /\ loops[a][i].pc \in {"fetch", "order"}
            /\ \/ log'["fetch_error"] = log["fetch_error"] + 1
               \/ log'["order_error"] = log["order_error"] + 1 )
          => LET sym == loops[a][i].sym
             IN  /\ sym < NumSymbols =>
                       /\ loops'[a][i].pc = "fetch"
                       /\ loops'[a][i].sym = sym + 1
                 /\ sym = NumSymbols =>
                       /\ loops'[a][i].pc = "select"
                       /\ loops'[a][i].sym = 0
                 /\ proc' = "up"
    ]_vars

\* In the only tick of the only loop the fetch of one symbol failed, and the
\* order of the second symbol is at the broker.
C12_Witness ==
    /\ Len(loops[1]) = 1
    /\ ticks = 1
    /\ log["fetch_error"] = 1
    /\ loops[1][1].pc = "order"
    /\ loops[1][1].sym = 2

\* C13: when GetAccount fails, the tick ends there: the loop is back at its
\* select with its ticker live, no symbol was taken, no order was placed and the
\* balance is what it was.
C13_AccountFailureSkipsTick ==
    [][\A a \in agents : \A i \in 1..MaxCalls :
          ( /\ LoopSteps(a, i)
            /\ loops[a][i].pc = "account"
            /\ log'["account_error"] = log["account_error"] + 1 )
          => /\ loops'[a][i].pc = "select"
             /\ loops'[a][i].sym = 0
             /\ loops'[a][i].pc \in TickerLive
             /\ orders' = orders
             /\ riskMgr' = riskMgr
             /\ proc' = "up"
    ]_vars

\* The only loop lost its first tick to a failed GetAccount and has an order at
\* the broker in its second.
C13_Witness ==
    /\ Len(loops[1]) = 1
    /\ ticks = 2
    /\ log["account_error"] = 1
    /\ loops[1][1].pc = "order"

\* C14: an order is at the broker only with a Buy or Sell signal and a position
\* size above 0, and it carries the symbol, the size as quantity, the side of
\* the signal, kind market and time-in-force GTC; orders are accepted only in
\* steps of a loop that has one at the broker.
C14_OrderOnlyOnSignal ==
    /\ [](\A a \in agents : \A i \in DOMAIN loops[a] :
            LET l == loops[a][i]
            IN  /\ l.pc = "order" =>
                      /\ l.signal \in {"BUY", "SELL"}
                      /\ RLt(RZero, l.positionSize)
                      /\ l.req.symbol = l.sym
                      /\ l.req.qty = l.positionSize
                      /\ l.signal = "BUY" => l.req.side = "buy"
                      /\ l.signal = "SELL" => l.req.side = "sell"
                      /\ l.req.type = "market"
                      /\ l.req.tif = "gtc"
                /\ l.pc # "order" => l.req = NoOrder)
    /\ [][\A a \in agents :
            orders'[a] # orders[a] =>
               \E i \in DOMAIN loops[a] :
                  /\ LoopSteps(a, i)
                  /\ loops[a][i].pc = "order"
                  /\ orders'[a] = orders[a] + 1
      ]_vars

\* A sell order at the broker after an earlier order was accepted.
C14_Witness ==
    /\ orders[1] >= 1
    /\ \E i \in DOMAIN loops[1] :
          /\ loops[1][i].pc = "order"
          /\ loops[1][i].signal = "SELL"
          /\ loops[1][i].req.side = "sell"

\* C15: the balance of every risk manager is above 0 in every state; it
\* changes only in the step of a loop that leaves GetAccount, and then to an
\* equity above 0.
C15_BalancePositive ==
    /\ [](\A a \in Agents : RLt(RZero, riskMgr[a].AccountBalance))
    /\ [][\A a \in Agents :
            riskMgr'[a].AccountBalance # riskMgr[a].AccountBalance =>
               /\ \E i \in DOMAIN loops[a] :
                     /\ LoopSteps(a, i)
                     /\ loops[a][i].pc = "account"
               /\ riskMgr'[a].AccountBalance \in Equities
               /\ RLt(RZero, riskMgr'[a].AccountBalance)
      ]_vars

\* The balance was replaced by the equity 20000 and an order was sized from it.
C15_Witness ==
    /\ riskMgr[1].AccountBalance = RInt(20000)
    /\ \E i \in DOMAIN loops[1] : loops[1][i].pc = "order"


\* A call of fn that has returned.
Returned(fn) == pure.fn = fn /\ pure.done

\* C16: CalculatePositionSize never returns a negative value, whatever the entry
\* price, the stop-loss price, the balance and the RiskPerTrade of the `start`
\* payload (the risk fraction is RiskPerTrade/100, taken as sent).
C16_SizeNeverNegative ==
    Returned("CalculatePositionSize") => RLe(RZero, pure.ret)

\* C17: CalculatePositionSize returns 0 when the entry price or the stop-loss
\* price is not positive or the two are equal, and otherwise the value whose
\* product with |entry - stop| is balance * risk fraction; entry 100, stop 98,
\* balance 10000, risk 0.01 give 50 and entry = stop = 100 gives 0.
C17_SizeFormula ==
    /\ Returned("CalculatePositionSize") =>
          LET distance == RAbs(RSub(pure.entryPrice, pure.stopLossPrice))
          IN  IF \/ RLe(pure.entryPrice, RZero)
                 \/ RLe(pure.stopLossPrice, RZero)
                 \/ distance = RZero
                 THEN pure.ret = RZero
                 ELSE RMul(pure.ret, distance) =
                         RMul(pure.m.AccountBalance, pure.m.RiskPerTradePercentage)
    /\ CalculatePositionSize(AgentManager(1), RInt(100), RInt(98)) = RInt(50)
    /\ CalculatePositionSize(AgentManager(1), RInt(100), RInt(100)) = RZero

\* A short position sized: the stop-loss above the entry, a positive result.
C17_Witness ==
    /\ Returned("CalculatePositionSize")
    /\ pure.entryPrice = RInt(100)
    /\ pure.stopLossPrice = RInt(102)
    /\ pure.m = AgentManager(1)
    /\ pure.ret = RInt(50)

\* C18: DetermineTakeProfit returns entry + |entry - stop| * ratio when the
\* entry is above the stop and entry - |entry - stop| * ratio otherwise; with a
\* positive ratio the result lies on the other side of the entry from the stop,
\* and it is the entry when entry = stop; (100, 98, 3) gives 106 and
\* (100, 102, 3) gives 94.
C18_TakeProfit ==
    /\ Returned("DetermineTakeProfit") =>
          LET entry == pure.entryPrice
              stop == pure.stopLossPrice
              distance == RMul(RAbs(RSub(entry, stop)), pure.riskRewardRatio)
          IN  /\ RLt(stop, entry) => RSub(pure.ret, entry) = distance
              /\ ~RLt(stop, entry) => RSub(entry, pure.ret) = distance
              /\ RLt(RZero, pure.riskRewardRatio) =>
                    /\ RLt(stop, entry) => RLt(entry, pure.ret)
                    /\ RLt(entry, stop) => RLt(pure.ret, entry)
              /\ entry = stop => pure.ret = entry
    /\ DetermineTakeProfit(RInt(100), RInt(98), RInt(3)) = RInt(106)
    /\ DetermineTakeProfit(RInt(100), RInt(102), RInt(3)) = RInt(94)

\* The take-profit of a short position: entry 100, stop 102, ratio 3.
C18_Witness ==
    /\ Returned("DetermineTakeProfit")
    /\ pure.entryPrice = RInt(100)
    /\ pure.stopLossPrice = RInt(102)
    /\ pure.riskRewardRatio = RInt(3)
    /\ pure.ret = RInt(94)

\* C19: on closePrices shorter than the long window, the empty sequence
\* included, GenerateSignal returns Hold.
C19_ShortInputHolds ==
    (Returned("GenerateSignal") /\ pure.len < LongWindow) => pure.signal = "HOLD"

\* 31 closes whose indicator values show a bullish crossover, answered by Hold.
C19_Witness ==
    /\ Returned("GenerateSignal")
    /\ pure.len = 31
    /\ pure.ind = Indicators(100, 100, 101, 100, 31)
    /\ pure.signal = "HOLD"

\* The buy and the sell condition of the strategy, on the values read.
BullishConfirmed(ind) ==
    /\ ind.previousShortSMA <= ind.previousLongSMA
    /\ ind.latestShortSMA > ind.latestLongSMA
    /\ ind.latestRSI < RSIOverbought

BearishConfirmed(ind) ==
    /\ ind.previousShortSMA >= ind.previousLongSMA
    /\ ind.latestShortSMA < ind.latestLongSMA
    /\ ind.latestRSI > RSIOversold

\* C20: on closePrices of at least the long window, GenerateSignal returns Buy
\* exactly on a bullish crossover with RSI below the overbought threshold, Sell
\* exactly on a bearish crossover with RSI above the oversold threshold and Hold
\* otherwise; the two conditions exclude each other, and the result of a call
\* is that of its own input whatever calls came before it.
C20_SignalRule ==
    (Returned("GenerateSignal") /\ pure.len >= LongWindow) =>
        /\ pure.signal = "BUY" <=> BullishConfirmed(pure.ind)
        /\ pure.signal = "SELL" <=> BearishConfirmed(pure.ind)
        /\ pure.signal = "HOLD" <=>
              ~BullishConfirmed(pure.ind) /\ ~BearishConfirmed(pure.ind)
        /\ ~(BullishConfirmed(pure.ind) /\ BearishConfirmed(pure.ind))

\* A second call in a row: a bearish crossover with RSI 31, answered by Sell.
C20_Witness ==
    /\ Returned("GenerateSignal")
    /\ pure.n = 2
    /\ pure.len = 50
    /\ pure.ind = Indicators(101, 100, 100, 101, 31)
    /\ pure.signal = "SELL"

\* C21: under the session handler alone, every agent built has had Start()
\* called on it once and no other agent has; a Stop() on an agent whose stopChan
\* is closed finds it not running and closes nothing, so no stopChan is closed
\* twice; and a message that is not JSON, or a `start` whose payload does not
\* decode, leaves the agents and the agent held as they are and the session
\* reading.
C21_StartOnceCloseOnce ==
    /\ [](\A a \in Agents :
            /\ nStart[a] = IF a \in agents THEN 1 ELSE 0
            /\ mu[a] = "unlocked")
    /\ [][\A a \in Agents :
            (nStop'[a] # nStop[a] /\ stopClosed[a]) =>
               /\ ~isRunning[a]
               /\ ~panicked'
               /\ stopClosed' = stopClosed
               /\ log' = Logged("not_running")
      ]_vars
    /\ [][(RecvMalformed \/ RecvBadConfig) =>
             /\ sess' = sess
             /\ sess'.pc = "read"
             /\ agents' = agents
             /\ isRunning' = isRunning
             /\ stopClosed' = stopClosed
             /\ loops' = loops
             /\ nStart' = nStart
             /\ nStop' = nStop
             /\ proc' = "up"
      ]_vars

\* Four messages, two of them `start` and the last two `stop`, then the
\* disconnect: the second agent had three Stop() calls, two of them no-ops.
C21_Witness ==
    /\ sess.pc = "ended"
    /\ Cardinality(agents) = 2
    /\ sess.held = 2
    /\ nStart[2] = 1
    /\ nStop[2] = 3
    /\ log["not_running"] = 2
    /\ stopClosed[2]
    /\ ~panicked

\* C22: when the data service answers with at most one close per calendar day
\* of the 30 days requested, GenerateSignal answers Hold on every answer, no
\* loop ever has an order at the broker and no order is ever accepted, whatever
\* the prices, the symbol, the balance and the RiskPerTrade.
C22_DailyDataNeverTrades ==
    env = "daily" =>
        /\ \A c \in Candles :
              /\ c.len <= MaxDailyCloses
              /\ GenerateSignal(c.len, c.ind) = "HOLD"
        /\ \A a \in Agents :
              /\ orders[a] = 0
              /\ \A i \in DOMAIN loops[a] :
                    /\ loops[a][i].pc # "order"
                    /\ loops[a][i].signal = ""
                    /\ loops[a][i].req = NoOrder
        /\ log["order_error"] = 0

\* In the second tick on daily data the only loop is past its first symbol,
\* whose fetch succeeded, as every fetch did.
C22_Witness ==
    /\ env = "daily"
    /\ Len(loops[1]) = 1
    /\ ticks = 2
    /\ log["fetch_error"] = 0
    /\ log["account_error"] = 0
    /\ loops[1][1].pc = "fetch"
    /\ loops[1][1].sym = 2
    /\ riskMgr[1].AccountBalance = RInt(20000)
    /\ riskMgr[1].RiskPerTradePercentage = Rat(1, 100)

====
